---- MODULE Spec2Model ----
\* A model of the Result value type of src/src/result/index.ts: the two
\* classes Ok and Err, their constructors ok() and err(), their sixteen
\* members, unwrapFailed() and the free function match().
\*
\* Instances live in a heap (a sequence of objects, the address of an instance
\* is its index), so that "returns this" and "returns a new instance" differ.
\* Every call is one action: it records the call, the callbacks it invoked, in
\* order, and its completion (a normal return or a throw).
EXTENDS Integers, Sequences, FiniteSets, TLC

VARIABLES
    heap,        \* Seq of instances: [cls |-> "Ok", value |-> v] or [cls |-> "Err", error |-> e]
    call,        \* the last call made: [op |-> ..., this |-> address, ...arguments]
    completion,  \* how the last call completed: [type |-> "return", ret |-> x] or [type |-> "throw", thrown |-> x]
    calls        \* the callbacks the last call invoked, in order: [fn |-> name, arg |-> value]

vars == <<heap, call, completion, calls>>

\* ------------------------------------------------------------------ bounds

\* The number of instances a behaviour may allocate.
MaxHeap == 2

\* ------------------------------------------------------- JavaScript values

Num(n) == [t |-> "number", n |-> n]
NaN == [t |-> "NaN"]
Str(s) == [t |-> "string", s |-> s]
Bool(b) == [t |-> "boolean", b |-> b]
Undefined == [t |-> "undefined"]
\* An Error object with the given message (its name is "Error").
ErrorObj(m) == [t |-> "Error", message |-> m]
\* A reference to the instance at an address of the heap.
Ref(a) == [t |-> "ref", addr |-> a]

\* The payloads the callers construct results with.
Payloads == {Num(2), Str("boom"), ErrorObj("boom")}

\* The context messages the callers pass to expect() and expectErr().
Messages == {"oh no", "testing err"}

\* The default values the callers pass to mapOr().
Defaults == {Num(0), Str("none")}

\* The backquote character U+0060, which a TLA+ string cannot hold; the
\* apostrophe stands for it in the texts below.
BT == "'"

\* The template literal's conversion `${x}` (ToString of the language).
Stringify(x) ==
    CASE x.t = "number"    -> ToString(x.n)
      [] x.t = "NaN"       -> "NaN"
      [] x.t = "string"    -> x.s
      [] x.t = "boolean"   -> IF x.b THEN "true" ELSE "false"
      [] x.t = "undefined" -> "undefined"
      [] x.t = "Error"     -> IF x.message = "" THEN "Error" ELSE "Error: " \o x.message

\* new Error(message)
NewError(message) == ErrorObj(message)

\* ToNumber of the language, on the values this model draws (its strings are
\* never numeric literals).
ToNumber(x) ==
    CASE x.t = "number"    -> x
      [] x.t = "boolean"   -> Num(IF x.b THEN 1 ELSE 0)
      [] x.t = "string"    -> IF x.s = "" THEN Num(0) ELSE NaN
      [] OTHER             -> NaN

\* --------------------------------------------------------------- callbacks

\* The callbacks the callers pass.
\*   "double":  (val) => val * 2
\*   "log":     (val) => { console.log(val) }       (returns undefined)
Fns == {"double", "log"}

\* The predicates the callers pass.
\*   "gt1":     (val) => val > 1
Preds == {"gt1"}

Apply(fn, x) ==
    CASE fn = "double" -> (IF ToNumber(x).t = "number" THEN Num(ToNumber(x).n * 2) ELSE NaN)
      [] fn = "log"    -> Undefined
      [] fn = "gt1"    -> Bool(ToNumber(x).t = "number" /\ ToNumber(x).n > 1)

\* One invocation of a callback, as the log records it.
Invocation(fn, x) == [fn |-> fn, arg |-> x]

\* ------------------------------------------------------------- completions

\* A call that returns ret, leaving the heap h and having invoked cs.
Return(h, ret, cs) == [type |-> "return", heap |-> h, ret |-> ret, calls |-> cs]
\* A call that throws x.
Throw(h, x, cs) == [type |-> "throw", heap |-> h, thrown |-> x, calls |-> cs]

\* ------------------------------------------------------------ unwrapFailed

\* unwrapFailed() that forgets the caller's message.
unwrapFailed_NoMsg(h, msg, error) == Throw(h, NewError(Stringify(error)), <<>>)

unwrapFailed(h, msg, error) == Throw(h, NewError(msg \o ": " \o Stringify(error)), <<>>)

\* ------------------------------------------------------------ constructors

NewOk(value) == [cls |-> "Ok", value |-> value]
NewErr(error) == [cls |-> "Err", error |-> error]

ok(h, value, cs) == Return(Append(h, NewOk(value)), Ref(Len(h) + 1), cs)
err(h, error, cs) == Return(Append(h, NewErr(error)), Ref(Len(h) + 1), cs)

\* ---------------------------------------------------------------- class Ok

Ok_val(h, this) == Return(h, h[this].value, <<>>)

Ok_isOk(h, this) == Return(h, Bool(TRUE), <<>>)

Ok_isOkAnd(h, this, fn) ==
    Return(h, Apply(fn, h[this].value), <<Invocation(fn, h[this].value)>>)

Ok_isErr(h, this) == Return(h, Bool(FALSE), <<>>)

Ok_isErrAnd(h, this, fn) == Return(h, Bool(FALSE), <<>>)

\* Ok.map() that stores fn's result in this.value and returns this.
Ok_map_InPlace(h, this, fn) ==
    Return([h EXCEPT ![this].value = Apply(fn, h[this].value)], Ref(this),
           <<Invocation(fn, h[this].value)>>)

Ok_map(h, this, fn) ==
    ok(h, Apply(fn, h[this].value), <<Invocation(fn, h[this].value)>>)

Ok_mapOr(h, this, fn, defaultValue) ==
    Return(h, Apply(fn, h[this].value), <<Invocation(fn, h[this].value)>>)

Ok_mapOrElse(h, this, fn, defaultFn) ==
    Return(h, Apply(fn, h[this].value), <<Invocation(fn, h[this].value)>>)

Ok_mapErr(h, this, fn) == Return(h, Ref(this), <<>>)

Ok_inspect(h, this, fn) ==
    Return(h, Ref(this), <<Invocation(fn, h[this].value)>>)

Ok_inspectErr(h, this, fn) == Return(h, Ref(this), <<>>)

Ok_expect(h, this, msg) == Return(h, h[this].value, <<>>)

Ok_unwrap(h, this) == Return(h, h[this].value, <<>>)

Ok_expectErr(h, this, msg) == unwrapFailed(h, msg, h[this].value)

\* The text unwrapErr() passes to unwrapFailed.
UnwrapErrText ==
    "called " \o BT \o "Result.unwrapErr()" \o BT \o " on an " \o BT \o "Ok" \o BT \o " value"

\* Ok.unwrapErr() that throws the text alone, without the value.
Ok_unwrapErr_NoValue(h, this) == Throw(h, NewError(UnwrapErrText), <<>>)

Ok_unwrapErr(h, this) == unwrapFailed(h, UnwrapErrText, h[this].value)

\* --------------------------------------------------------------- class Err

Err_val(h, this) == Return(h, h[this].error, <<>>)

\* Err.isOk() copied from Ok.isOk() without flipping the answer.
Err_isOk_Copied(h, this) == Return(h, Bool(TRUE), <<>>)

Err_isOk(h, this) == Return(h, Bool(FALSE), <<>>)

Err_isOkAnd(h, this, fn) == Return(h, Bool(FALSE), <<>>)

Err_isErr(h, this) == Return(h, Bool(TRUE), <<>>)

Err_isErrAnd(h, this, fn) ==
    Return(h, Apply(fn, h[this].error), <<Invocation(fn, h[this].error)>>)

\* Err.map() that maps the error, as mapErr() does.
Err_map_Mapping(h, this, fn) ==
    err(h, Apply(fn, h[this].error), <<Invocation(fn, h[this].error)>>)

Err_map(h, this, fn) == Return(h, Ref(this), <<>>)

\* Err.mapOr() that passes the default through fn.
Err_mapOr_Applied(h, this, fn, defaultValue) ==
    Return(h, Apply(fn, defaultValue), <<Invocation(fn, defaultValue)>>)

Err_mapOr(h, this, fn, defaultValue) == Return(h, defaultValue, <<>>)

Err_mapOrElse(h, this, fn, defaultFn) ==
    Return(h, Apply(defaultFn, h[this].error), <<Invocation(defaultFn, h[this].error)>>)

Err_mapErr(h, this, fn) ==
    err(h, Apply(fn, h[this].error), <<Invocation(fn, h[this].error)>>)

\* Err.inspect() copied from Err.inspectErr(): it calls fn with the error.
Err_inspect_Calling(h, this, fn) ==
    Return(h, Ref(this), <<Invocation(fn, h[this].error)>>)

Err_inspect(h, this, fn) == Return(h, Ref(this), <<>>)

Err_inspectErr(h, this, fn) ==
    Return(h, Ref(this), <<Invocation(fn, h[this].error)>>)

Err_expect(h, this, msg) == unwrapFailed(h, msg, h[this].error)

\* Err.unwrap() going through unwrapFailed like the other three extractions.
Err_unwrap_Wrapped(h, this) ==
    unwrapFailed(h, "called " \o BT \o "Result.unwrap()" \o BT \o " on an " \o BT \o "Err" \o BT \o " value",
                 h[this].error)

Err_unwrap(h, this) == Throw(h, h[this].error, <<>>)

\* Err.expectErr() copied from Ok.expectErr(): it throws on its own variant.
Err_expectErr_Throwing(h, this, msg) == unwrapFailed(h, msg, h[this].error)

Err_expectErr(h, this, msg) == Return(h, h[this].error, <<>>)

Err_unwrapErr(h, this) == Return(h, h[this].error, <<>>)

\* ------------------------------------------------- dispatch on the variant

\* A member call on a Result runs the member of the receiver's class.
IsOkInstance(h, this) == h[this].cls = "Ok"

val(h, this) == IF IsOkInstance(h, this) THEN Ok_val(h, this) ELSE Err_val(h, this)
isOk(h, this) == IF IsOkInstance(h, this) THEN Ok_isOk(h, this) ELSE Err_isOk(h, this)
isOkAnd(h, this, fn) ==
    IF IsOkInstance(h, this) THEN Ok_isOkAnd(h, this, fn) ELSE Err_isOkAnd(h, this, fn)
isErr(h, this) == IF IsOkInstance(h, this) THEN Ok_isErr(h, this) ELSE Err_isErr(h, this)
isErrAnd(h, this, fn) ==
    IF IsOkInstance(h, this) THEN Ok_isErrAnd(h, this, fn) ELSE Err_isErrAnd(h, this, fn)
map(h, this, fn) == IF IsOkInstance(h, this) THEN Ok_map(h, this, fn) ELSE Err_map(h, this, fn)
mapOr(h, this, fn, defaultValue) ==
    IF IsOkInstance(h, this) THEN Ok_mapOr(h, this, fn, defaultValue)
    ELSE Err_mapOr(h, this, fn, defaultValue)
mapOrElse(h, this, fn, defaultFn) ==
    IF IsOkInstance(h, this) THEN Ok_mapOrElse(h, this, fn, defaultFn)
    ELSE Err_mapOrElse(h, this, fn, defaultFn)
mapErr(h, this, fn) ==
    IF IsOkInstance(h, this) THEN Ok_mapErr(h, this, fn) ELSE Err_mapErr(h, this, fn)
inspect(h, this, fn) ==
    IF IsOkInstance(h, this) THEN Ok_inspect(h, this, fn) ELSE Err_inspect(h, this, fn)
inspectErr(h, this, fn) ==
    IF IsOkInstance(h, this) THEN Ok_inspectErr(h, this, fn) ELSE Err_inspectErr(h, this, fn)
expect(h, this, msg) ==
    IF IsOkInstance(h, this) THEN Ok_expect(h, this, msg) ELSE Err_expect(h, this, msg)
unwrap(h, this) == IF IsOkInstance(h, this) THEN Ok_unwrap(h, this) ELSE Err_unwrap(h, this)
expectErr(h, this, msg) ==
    IF IsOkInstance(h, this) THEN Ok_expectErr(h, this, msg) ELSE Err_expectErr(h, this, msg)
unwrapErr(h, this) ==
    IF IsOkInstance(h, this) THEN Ok_unwrapErr(h, this) ELSE Err_unwrapErr(h, this)

\* ------------------------------------------------------------------- match

\* if (result.isOk()) return okCallback(result.val); return errorCallback(result.val);
\* match() without the return in the Ok branch: it falls through to errorCallback.
match_FallThrough(h, result, okCallback, errorCallback) ==
    IF isOk(h, result).ret = Bool(TRUE)
    THEN Return(h, Apply(errorCallback, val(h, result).ret),
                <<Invocation(okCallback, val(h, result).ret),
                  Invocation(errorCallback, val(h, result).ret)>>)
    ELSE Return(h, Apply(errorCallback, val(h, result).ret),
                <<Invocation(errorCallback, val(h, result).ret)>>)

match(h, result, okCallback, errorCallback) ==
    IF isOk(h, result).ret = Bool(TRUE)
    THEN Return(h, Apply(okCallback, val(h, result).ret),
                <<Invocation(okCallback, val(h, result).ret)>>)
    ELSE Return(h, Apply(errorCallback, val(h, result).ret),
                <<Invocation(errorCallback, val(h, result).ret)>>)

\* ----------------------------------------------------------------- actions

Init ==
    /\ heap = <<>>
    /\ call = [op |-> "none"]
    /\ completion = [type |-> "none"]
    /\ calls = <<>>

\* The state after a call: the heap the call left, the call, how it
\* completed (without the heap and the log, which have their own variables).
Finish(c, r) ==
    /\ heap' = r.heap
    /\ call' = c
    /\ calls' = r.calls
    /\ completion' = IF r.type = "return"
                     THEN [type |-> "return", ret |-> r.ret]
                     ELSE [type |-> "throw", thrown |-> r.thrown]

\* The instances a caller can hold.
Instances == DOMAIN heap

\* Whether the heap has room for one more instance (map and mapErr are
\* held back only when they would allocate beyond MaxHeap).
HasRoom == Len(heap) < MaxHeap

CallOk == \E v \in Payloads :
    /\ HasRoom
    /\ Finish([op |-> "ok", value |-> v], ok(heap, v, <<>>))

CallErr == \E e \in Payloads :
    /\ HasRoom
    /\ Finish([op |-> "err", error |-> e], err(heap, e, <<>>))

CallVal == \E this \in Instances :
    Finish([op |-> "val", this |-> this], val(heap, this))

CallIsOk == \E this \in Instances :
    Finish([op |-> "isOk", this |-> this], isOk(heap, this))

CallIsOkAnd == \E this \in Instances, fn \in Preds :
    Finish([op |-> "isOkAnd", this |-> this, fn |-> fn], isOkAnd(heap, this, fn))

CallIsErr == \E this \in Instances :
    Finish([op |-> "isErr", this |-> this], isErr(heap, this))

CallIsErrAnd == \E this \in Instances, fn \in Preds :
    Finish([op |-> "isErrAnd", this |-> this, fn |-> fn], isErrAnd(heap, this, fn))

CallMap == \E this \in Instances, fn \in Fns :
    /\ Len(map(heap, this, fn).heap) <= MaxHeap
    /\ Finish([op |-> "map", this |-> this, fn |-> fn], map(heap, this, fn))

CallMapOr == \E this \in Instances, fn \in Fns, d \in Defaults :
    Finish([op |-> "mapOr", this |-> this, fn |-> fn, defaultValue |-> d],
           mapOr(heap, this, fn, d))

CallMapOrElse == \E this \in Instances, fn \in Fns, defaultFn \in Fns :
    Finish([op |-> "mapOrElse", this |-> this, fn |-> fn, defaultFn |-> defaultFn],
           mapOrElse(heap, this, fn, defaultFn))

CallMapErr == \E this \in Instances, fn \in Fns :
    /\ Len(mapErr(heap, this, fn).heap) <= MaxHeap
    /\ Finish([op |-> "mapErr", this |-> this, fn |-> fn], mapErr(heap, this, fn))

CallInspect == \E this \in Instances, fn \in Fns :
    Finish([op |-> "inspect", this |-> this, fn |-> fn], inspect(heap, this, fn))

CallInspectErr == \E this \in Instances, fn \in Fns :
    Finish([op |-> "inspectErr", this |-> this, fn |-> fn], inspectErr(heap, this, fn))

CallExpect == \E this \in Instances, msg \in Messages :
    Finish([op |-> "expect", this |-> this, msg |-> msg], expect(heap, this, msg))

CallUnwrap == \E this \in Instances :
    Finish([op |-> "unwrap", this |-> this], unwrap(heap, this))

CallExpectErr == \E this \in Instances, msg \in Messages :
    Finish([op |-> "expectErr", this |-> this, msg |-> msg], expectErr(heap, this, msg))

CallUnwrapErr == \E this \in Instances :
    Finish([op |-> "unwrapErr", this |-> this], unwrapErr(heap, this))

CallMatch == \E this \in Instances, okCallback \in Fns, errorCallback \in Fns :
    Finish([op |-> "match", this |-> this, okCallback |-> okCallback,
            errorCallback |-> errorCallback],
           match(heap, this, okCallback, errorCallback))

Next ==
    \/ CallOk
    \/ CallErr
    \/ CallVal
    \/ CallIsOk
    \/ CallIsOkAnd
    \/ CallIsErr
    \/ CallIsErrAnd
    \/ CallMap
    \/ CallMapOr
    \/ CallMapOrElse
    \/ CallMapErr
    \/ CallInspect
    \/ CallInspectErr
    \/ CallExpect
    \/ CallUnwrap
    \/ CallExpectErr
    \/ CallUnwrapErr
    \/ CallMatch

Spec == Init /\ [][Next]_vars

\* ------------------------------------------------- vocabulary of the claims

\* The names of the sixteen members and of match, the calls that have a receiver.
MemberOps ==
    {"val", "isOk", "isOkAnd", "isErr", "isErrAnd", "map", "mapOr", "mapOrElse",
     "mapErr", "inspect", "inspectErr", "expect", "unwrap", "expectErr",
     "unwrapErr", "match"}

Returned == completion.type = "return"
Threw == completion.type = "throw"

\* The instance the last call was made on.
Receiver == heap[call.this]
OnOk == call.op \in MemberOps /\ Receiver.cls = "Ok"
OnErr == call.op \in MemberOps /\ Receiver.cls = "Err"

\* The payload an instance holds in its private field.
Held(obj) == IF obj.cls = "Ok" THEN obj.value ELSE obj.error

StartsWith(s, p) == Len(s) >= Len(p) /\ SubSeq(s, 1, Len(p)) = p
EndsWith(s, p) == Len(s) >= Len(p) /\ SubSeq(s, Len(s) - Len(p) + 1, Len(s)) = p

\* ------------------------------------------------------------------ claims

\* C1: ok(v) is an Ok holding v and err(e) is an Err holding e: on the instance
\* ok(v) returned, isOk() is true, isErr() is false and val is v; on the
\* instance err(e) returned, isOk() is false, isErr() is true and val is e; and
\* on every instance exactly one of isOk() and isErr() is true.
C1_OneVariantWithItsPayload ==
    /\ call.op = "ok" =>
          /\ Returned
          /\ completion.ret.t = "ref"
          /\ isOk(heap, completion.ret.addr) = Return(heap, Bool(TRUE), <<>>)
          /\ isErr(heap, completion.ret.addr) = Return(heap, Bool(FALSE), <<>>)
          /\ val(heap, completion.ret.addr) = Return(heap, call.value, <<>>)
    /\ call.op = "err" =>
          /\ Returned
          /\ completion.ret.t = "ref"
          /\ isOk(heap, completion.ret.addr) = Return(heap, Bool(FALSE), <<>>)
          /\ isErr(heap, completion.ret.addr) = Return(heap, Bool(TRUE), <<>>)
          /\ val(heap, completion.ret.addr) = Return(heap, call.error, <<>>)
    /\ \A r \in DOMAIN heap :
          /\ isOk(heap, r).type = "return" /\ isErr(heap, r).type = "return"
          /\ isOk(heap, r).ret \in {Bool(TRUE), Bool(FALSE)}
          /\ isErr(heap, r).ret \in {Bool(TRUE), Bool(FALSE)}
          /\ isOk(heap, r).ret # isErr(heap, r).ret
    /\ call.op = "isOk" => Returned /\ completion.ret = Bool(Receiver.cls = "Ok")
    /\ call.op = "isErr" => Returned /\ completion.ret = Bool(Receiver.cls = "Err")
    /\ call.op = "val" => Returned /\ completion.ret = Held(Receiver)

\* An err(e) was constructed next to an Ok, and both answer the queries.
C1_Witness ==
    /\ call.op = "err"
    /\ Len(heap) = 2
    /\ heap[1].cls = "Ok" /\ heap[2] = NewErr(ErrorObj("boom"))

C3_ExpectMessage ==
    /\ call.op = "expect" =>
          /\ OnOk => Returned /\ completion.ret = Receiver.value
          /\ OnErr =>
                /\ Threw
                /\ completion.thrown.t = "Error"
                /\ completion.thrown.message = call.msg \o ": " \o Stringify(Receiver.error)
                /\ Receiver.error = Str("boom") /\ call.msg = "oh no"
                      => completion.thrown.message = "oh no: boom"
                /\ Receiver.error = ErrorObj("boom") /\ call.msg = "oh no"
                      => completion.thrown.message = "oh no: Error: boom"
    /\ call.op = "expectErr" =>
          /\ OnErr => Returned /\ completion.ret = Receiver.error
          /\ OnOk =>
                /\ Threw
                /\ completion.thrown.t = "Error"
                /\ completion.thrown.message = call.msg \o ": " \o Stringify(Receiver.value)
                /\ Receiver.value = Num(2) /\ call.msg = "testing err"
                      => completion.thrown.message = "testing err: 2"

\* expectErr("testing err") was called on ok(2) and threw.
C3_Witness ==
    /\ call.op = "expectErr" /\ OnOk
    /\ Receiver.value = Num(2) /\ call.msg = "testing err"
    /\ Threw

C5_MapKeepsTheVariant ==
    /\ call.op = "map" =>
          /\ Returned /\ completion.ret.t = "ref"
          /\ completion.ret.addr \in DOMAIN heap
          /\ OnOk =>
                /\ heap[completion.ret.addr] = NewOk(Apply(call.fn, Receiver.value))
                /\ calls = <<Invocation(call.fn, Receiver.value)>>
          /\ OnErr =>
                /\ heap[completion.ret.addr] = NewErr(Receiver.error)
                /\ calls = <<>>
    /\ call.op = "mapErr" =>
          /\ Returned /\ completion.ret.t = "ref"
          /\ completion.ret.addr \in DOMAIN heap
          /\ OnOk =>
                /\ heap[completion.ret.addr] = NewOk(Receiver.value)
                /\ calls = <<>>
          /\ OnErr =>
                /\ heap[completion.ret.addr] = NewErr(Apply(call.fn, Receiver.error))
                /\ calls = <<Invocation(call.fn, Receiver.error)>>

\* map(double) was called on err(2): the Err still holds 2 and double never ran.
C5_Witness ==
    /\ call.op = "map" /\ OnErr
    /\ call.fn = "double"
    /\ Receiver.error = Num(2)
    /\ Returned /\ calls = <<>>

\* C6: mapOr(f, d) returns f(v) on ok(v) and d on err(e), where f is never
\* called; mapOrElse(f, g) returns f(v) on ok(v), where g is never called, and
\* g(e) on err(e), where f is never called.
C6_MapOrDefault ==
    /\ call.op = "mapOr" =>
          /\ Returned
          /\ OnOk =>
                /\ completion.ret = Apply(call.fn, Receiver.value)
                /\ calls = <<Invocation(call.fn, Receiver.value)>>
          /\ OnErr =>
                /\ completion.ret = call.defaultValue
                /\ calls = <<>>
    /\ call.op = "mapOrElse" =>
          /\ Returned
          /\ OnOk =>
                /\ completion.ret = Apply(call.fn, Receiver.value)
                /\ calls = <<Invocation(call.fn, Receiver.value)>>
          /\ OnErr =>
                /\ completion.ret = Apply(call.defaultFn, Receiver.error)
                /\ calls = <<Invocation(call.defaultFn, Receiver.error)>>

\* mapOr(double, 0) was called on err(2) and returned 0, not double of anything.
C6_Witness ==
    /\ call.op = "mapOr" /\ OnErr
    /\ call.fn = "double" /\ call.defaultValue = Num(0)
    /\ Receiver.error = Num(2)
    /\ Returned /\ completion.ret = Num(0)

\* C7: inspect(f) calls f once, with v, on ok(v) and never on err(e);
\* inspectErr(f) calls f once, with e, on err(e) and never on ok(v); the Result
\* returned has the receiver's variant and the receiver's val.
C7_InspectCallsOnce ==
    /\ call.op = "inspect" =>
          /\ OnOk => calls = <<Invocation(call.fn, Receiver.value)>>
          /\ OnErr => calls = <<>>
    /\ call.op = "inspectErr" =>
          /\ OnErr => calls = <<Invocation(call.fn, Receiver.error)>>
          /\ OnOk => calls = <<>>
    /\ call.op \in {"inspect", "inspectErr"} =>
          /\ Returned /\ completion.ret.t = "ref"
          /\ completion.ret.addr \in DOMAIN heap
          /\ heap[completion.ret.addr].cls = Receiver.cls
          /\ val(heap, completion.ret.addr).ret = val(heap, call.this).ret

\* inspect(log) was called on err("boom") and log never ran.
C7_Witness ==
    /\ call.op = "inspect" /\ OnErr
    /\ call.fn = "log"
    /\ Receiver.error = Str("boom")
    /\ Returned /\ calls = <<>>

\* C8: match(result, onOk, onErr) calls exactly one callback, once: onOk with
\* the value when result is Ok, onErr with the error when it is Err, and
\* returns what that callback returned.
C8_MatchCallsExactlyOne ==
    call.op = "match" =>
        /\ Returned
        /\ Len(calls) = 1
        /\ OnOk =>
              /\ calls = <<Invocation(call.okCallback, Receiver.value)>>
              /\ completion.ret = Apply(call.okCallback, Receiver.value)
        /\ OnErr =>
              /\ calls = <<Invocation(call.errorCallback, Receiver.error)>>
              /\ completion.ret = Apply(call.errorCallback, Receiver.error)

\* match(ok(2), double, log) ran double alone and returned 4.
C8_Witness ==
    /\ call.op = "match" /\ OnOk
    /\ call.okCallback = "double" /\ call.errorCallback = "log"
    /\ Receiver.value = Num(2)
    /\ completion = [type |-> "return", ret |-> Num(4)]

\* C9: a call throws exactly when it is unwrap or expect on an Err, or
\* unwrapErr or expectErr on an Ok; every other call (the constructors, the
\* queries, the transformations, match, and the extractions on their own
\* variant) returns.
C9_ThrowsInFourCasesOnly ==
    call.op # "none" =>
        /\ Returned \/ Threw
        /\ Threw <=> \/ call.op \in {"unwrap", "expect"} /\ OnErr
                     \/ call.op \in {"unwrapErr", "expectErr"} /\ OnOk

\* expectErr() was called on an Err, its own variant, and returned.
C9_Witness ==
    /\ call.op = "expectErr" /\ OnErr
    /\ Returned

\* C10: no call changes an instance that exists: every instance keeps its
\* variant and its payload through every call, those that throw included; and
\* a map or mapErr whose result holds another payload than the receiver
\* returns another instance.
C10_InstancesNeverChange ==
    [][/\ \A a \in DOMAIN heap : a \in DOMAIN heap' /\ heap'[a] = heap[a]
       /\ (call'.op \in {"map", "mapErr", "inspect", "inspectErr"}
           /\ completion'.type = "return")
             => (Held(heap'[completion'.ret.addr]) # Held(heap[call'.this])
                   => completion'.ret.addr # call'.this)]_vars

\* map(double) on ok(2) returned a second instance holding 4, the first still holds 2.
C10_Witness ==
    /\ call.op = "map" /\ OnOk
    /\ call.fn = "double"
    /\ Returned /\ completion.ret = Ref(2) /\ call.this = 1
    /\ heap = <<NewOk(Num(2)), NewOk(Num(4))>>

====
